---- MODULE Spec2Model ----
(***************************************************************************)
(* A model of scopy (src/scopy.py): the Scopy object, its run() pipeline   *)
(* (get_results, sort_results, format_results, output_results) and the     *)
(* helpers the pipeline is built from.                                     *)
(*                                                                         *)
(* Strings are sequences of one-character strings, so that slicing,        *)
(* find/rfind, lower() and the substring test are computed on characters.  *)
(* Python indices are 0-based; TLA+ sequences are 1-based, and the         *)
(* operators below take and return Python's 0-based indices.               *)
(***************************************************************************)
EXTENDS Integers, Sequences, FiniteSets, TLC

VARIABLES
    self,               \* the Scopy object's attributes (set by __init__)
    fs,                 \* the filesystem: directory listings and written files
    pc,                 \* position of the running method
    pending,            \* os.walk: directories still to be yielded, in order
    results,            \* get_results' return value / _search_all's list
    sorted_results,     \* sort_results' return value
    formatted_content,  \* format_results' return value
    console,            \* what print() has written, in order
    stages,             \* the public methods run() has entered, in order
    arg,                \* the argument of the helper under study
    out                 \* the helper's return value
                        \* (also _trimmed's local variables while it runs)

vars == <<self, fs, pc, pending, results, sorted_results, formatted_content,
          console, stages, arg, out>>

(***************************************************************************)
(* Characters and strings                                                  *)
(***************************************************************************)

\* the characters the modelled inputs are written in
LowerLetters == {"a", "b", "c", "d", "e", "f", "g", "k", "m", "n", "o", "p", "r", "t", "x"}

UpperLetters == {"A", "B", "C", "D", "E", "F", "G", "K", "M", "N", "O", "P", "R", "T", "X"}

Digits == {"0", "1", "2", "3", "4", "5", "6", "7", "8", "9"}

\* str.lower() on one character
Lower(c) ==
    CASE c = "A" -> "a" [] c = "B" -> "b" [] c = "C" -> "c" [] c = "D" -> "d"
      [] c = "E" -> "e" [] c = "F" -> "f" [] c = "G" -> "g" [] c = "K" -> "k"
      [] c = "M" -> "m" [] c = "N" -> "n" [] c = "O" -> "o" [] c = "P" -> "p"
      [] c = "R" -> "r" [] c = "T" -> "t" [] c = "X" -> "x"
      [] OTHER -> c

\* str.upper() on one character
Upper(c) ==
    CASE c = "a" -> "A" [] c = "b" -> "B" [] c = "c" -> "C" [] c = "d" -> "D"
      [] c = "e" -> "E" [] c = "f" -> "F" [] c = "g" -> "G" [] c = "k" -> "K"
      [] c = "m" -> "M" [] c = "n" -> "N" [] c = "o" -> "O" [] c = "p" -> "P"
      [] c = "r" -> "R" [] c = "t" -> "T" [] c = "x" -> "X"
      [] OTHER -> c

\* str.isalpha() on one character
IsAlpha(c) == c \in LowerLetters \cup UpperLetters

\* ord(): the code point, which is what Python's string comparison orders by
Ord(c) ==
    CASE c = " " -> 32 [] c = "$" -> 36 [] c = "%" -> 37 [] c = "+" -> 43
      [] c = "-" -> 45 [] c = "." -> 46 [] c = "/" -> 47 [] c = "0" -> 48
      [] c = "1" -> 49 [] c = "2" -> 50 [] c = "3" -> 51 [] c = "4" -> 52
      [] c = "5" -> 53 [] c = "6" -> 54 [] c = "7" -> 55 [] c = "8" -> 56
      [] c = "9" -> 57 [] c = "A" -> 65 [] c = "B" -> 66 [] c = "C" -> 67
      [] c = "D" -> 68 [] c = "E" -> 69 [] c = "F" -> 70 [] c = "G" -> 71
      [] c = "K" -> 75 [] c = "M" -> 77 [] c = "N" -> 78 [] c = "O" -> 79
      [] c = "P" -> 80 [] c = "R" -> 82 [] c = "T" -> 84 [] c = "X" -> 88
      [] c = "\\" -> 92 [] c = "_" -> 95 [] c = "a" -> 97 [] c = "b" -> 98
      [] c = "c" -> 99 [] c = "d" -> 100 [] c = "e" -> 101 [] c = "f" -> 102
      [] c = "g" -> 103 [] c = "k" -> 107 [] c = "m" -> 109 [] c = "n" -> 110
      [] c = "o" -> 111 [] c = "p" -> 112 [] c = "r" -> 114 [] c = "t" -> 116
      [] c = "x" -> 120

\* s.lower()
LowerStr(s) == [i \in 1..Len(s) |-> Lower(s[i])]

\* Python's slice s[lo:hi] with both bounds given: a negative bound counts
\* from the end, and bounds are clamped to the string
PyIndex(n, i) == IF i < 0 THEN (IF n + i < 0 THEN 0 ELSE n + i)
                 ELSE (IF i > n THEN n ELSE i)

PySlice(s, lo, hi) == SubSeq(s, PyIndex(Len(s), lo) + 1, PyIndex(Len(s), hi))

\* s[lo:]
PySliceFrom(s, lo) == PySlice(s, lo, Len(s))

\* s[:hi]
PySliceTo(s, hi) == PySlice(s, 0, hi)

\* s.find(c, start) for a one-character c: lowest index >= start, or -1
Find(s, c, start) ==
    LET hits == {i \in start..(Len(s) - 1) : s[i + 1] = c}
    IN  IF hits = {} THEN -1 ELSE CHOOSE i \in hits : \A j \in hits : i <= j

\* s.rfind(c) for a one-character c: highest index, or -1
RFind(s, c) ==
    LET hits == {i \in 0..(Len(s) - 1) : s[i + 1] = c}
    IN  IF hits = {} THEN -1 ELSE CHOOSE i \in hits : \A j \in hits : i >= j

\* sub in s
Contains(sub, s) ==
    \E i \in 0..(Len(s) - Len(sub)) : SubSeq(s, i + 1, i + Len(sub)) = sub

\* s.replace(a, b) for one-character a and b
Replace(s, a, b) == [i \in 1..Len(s) |-> IF s[i] = a THEN b ELSE s[i]]

\* s.startswith(c) for a one-character c
StartsWith(s, c) == Len(s) > 0 /\ s[1] = c

\* all strings over an alphabet with lo..hi characters
StringsOver(alphabet, lo, hi) ==
    UNION {[1..n -> alphabet] : n \in lo..hi}

\* A value that may be Python's None: None itself, or Some(v)
None == [none |-> TRUE, val |-> <<>>]

Some(v) == [none |-> FALSE, val |-> v]

\* the test `if x:` on a list or string that may be None
Truthy(x) == ~x.none /\ Len(x.val) > 0

(***************************************************************************)
(* Scopy._split                                                            *)
(***************************************************************************)

\* a split at the first dot instead of the last
SplitAtFirstDot(file) ==
    LET ext_index == Find(file, ".", 0)
    IN  <<PySliceTo(file, ext_index), PySliceFrom(file, ext_index)>>

Split(file) ==
    LET ext_index == RFind(file, ".")
    IN  <<PySliceTo(file, ext_index), PySliceFrom(file, ext_index)>>

(***************************************************************************)
(* Scopy._set_minsize                                                      *)
(***************************************************************************)

\* the value of a string of decimal digits
RECURSIVE DigitsValue(_)
DigitsValue(s) ==
    IF Len(s) = 0 THEN 0
    ELSE 10 * DigitsValue(SubSeq(s, 1, Len(s) - 1)) + (Ord(s[Len(s)]) - 48)

IsDigits(s) == Len(s) > 0 /\ \A i \in 1..Len(s) : s[i] \in Digits

\* the strings int() accepts, among those written in the modelled characters:
\* an optional sign followed by one or more digits
IsIntLiteral(s) ==
    IF Len(s) > 0 /\ s[1] \in {"+", "-"} THEN IsDigits(Tail(s)) ELSE IsDigits(s)

\* int(s) for such a string
IntOf(s) ==
    IF s[1] = "-" THEN 0 - DigitsValue(Tail(s))
    ELSE IF s[1] = "+" THEN DigitsValue(Tail(s))
    ELSE DigitsValue(s)

WARNING == <<"WARNING: Not a valid format for file size!",
             "Using the default value: 0\n">>

\* parse_size: the size and the lines it prints
ParseSize(size, multi) ==
    IF IsIntLiteral(size)
    THEN [size |-> multi * IntOf(size), printed |-> <<>>]
    ELSE [size |-> 0, printed |-> WARNING]

\* translate.get(letter, 1)
MinsizeTranslate(letter) ==
    CASE letter = "k" -> 1024
      [] letter = "m" -> 1024 * 1024
      [] letter = "g" -> 1024 * 1024 * 1024
      [] OTHER -> 1

SetMinsize(minsize) ==
    IF IsAlpha(minsize[Len(minsize)])
    THEN LET multiplier == MinsizeTranslate(Lower(minsize[Len(minsize)]))
         IN  ParseSize(PySliceTo(minsize, -1), multiplier)
    ELSE ParseSize(minsize, 1)

(***************************************************************************)
(* Scopy._set_extensions, Scopy._set_outfile                               *)
(***************************************************************************)

SetExtensions(extensions) ==
    {IF ~StartsWith(e, ".") THEN <<".">> \o e ELSE e : e \in extensions}

SetOutfile(outfile) ==
    IF Truthy(outfile)
    THEN IF Find(outfile.val, ".", 0) = -1
         THEN Some(outfile.val \o <<".", "t", "x", "t">>)
         ELSE outfile
    ELSE outfile

(***************************************************************************)
(* Scopy._convert_bytes                                                    *)
(*                                                                         *)
(* A byte count can exceed what TLC's integers hold (the last unit is      *)
(* reached at 1024^4), so the argument is a natural number written in base *)
(* 1024, least significant digit first.  `size /= 1024` is Python's true   *)
(* division; after k divisions the value is the digits above the k-th with *)
(* the k lowest digits as its fraction, which floats hold exactly below    *)
(* 2^53.                                                                   *)
(***************************************************************************)

Base == 1024

UNITS == <<<<"B">>, <<"K", "B">>, <<"M", "B">>, <<"G", "B">>, <<"T", "B">>>>

\* a small natural number in base 1024
RECURSIVE ToDigits(_)
ToDigits(n) == IF n < Base THEN <<n>> ELSE <<n % Base>> \o ToDigits(n \div Base)

DigitAt(n, i) == IF i <= Len(n) THEN n[i] ELSE 0

\* the decimal digits of a natural number, as str() writes them
RECURSIVE DecStr(_)
DecStr(n) ==
    LET d == <<"0", "1", "2", "3", "4", "5", "6", "7", "8", "9">>[(n % 10) + 1]
    IN  IF n < 10 THEN <<d>> ELSE DecStr(n \div 10) \o <<d>>

\* s right-aligned in a field of w characters ('{:>w}')
RECURSIVE PadLeft(_, _)
PadLeft(s, w) == IF Len(s) >= w THEN s ELSE PadLeft(<<" ">> \o s, w)

\* s left-aligned in a field of w characters ('{:<w}')
RECURSIVE PadRight(_, _)
PadRight(s, w) == IF Len(s) >= w THEN s ELSE PadRight(s \o <<" ">>, w)

\* size < 1024 after k divisions by 1024
BelowBase(n, k) == \A i \in 1..Len(n) : i > k + 1 => n[i] = 0

\* '{:.0f}' of the value after k divisions: round to nearest, ties to even
RoundedAfter(n, k) ==
    LET whole == DigitAt(n, k + 1)
        top   == IF k = 0 THEN 0 ELSE DigitAt(n, k)
        rest  == \E i \in 1..Len(n) : i < k /\ n[i] # 0
        above == top > Base \div 2 \/ (top = Base \div 2 /\ rest)
        tie   == top = Base \div 2 /\ ~rest
    IN  IF above \/ (tie /\ whole % 2 = 1) THEN whole + 1 ELSE whole

\* '{:3.0f} {:>2}'.format(size, unit)
FormatSize(number, unit) == PadLeft(DecStr(number), 3) \o <<" ">> \o PadLeft(unit, 2)

\* the loop of _convert_bytes from its k-th unit on (k counts from 0)
RECURSIVE ConvertFrom(_, _)
ConvertFrom(n, k) ==
    IF k >= Len(UNITS) THEN None
    ELSE IF BelowBase(n, k) THEN Some(FormatSize(RoundedAfter(n, k), UNITS[k + 1]))
    ELSE ConvertFrom(n, k + 1)

ConvertBytes(size) == ConvertFrom(size, 0)

(***************************************************************************)
(* Scopy.sort_results                                                      *)
(*                                                                         *)
(* A result is the tuple (filename, ext, size, path): strings and a size.  *)
(***************************************************************************)

\* translate: the tuple index (0-based) of a sort column
SortTranslate(column) ==
    CASE column = "n" -> 0 [] column = "e" -> 1 [] column = "s" -> 2 [] column = "d" -> 3

\* a < b on strings: by code point at the first difference, a proper prefix first
StrLess(a, b) ==
    \/ \E i \in 1..Len(a) :
          /\ i <= Len(b)
          /\ SubSeq(a, 1, i - 1) = SubSeq(b, 1, i - 1)
          /\ Ord(a[i]) < Ord(b[i])
    \/ Len(a) < Len(b) /\ SubSeq(b, 1, Len(a)) = a

\* a < b on two entries of the same tuple index: sizes are numbers
ItemLess(index, a, b) == IF index = 2 THEN a < b ELSE StrLess(a, b)

\* sort_order: the key list of a result
SortOrder(x, sort_by) == [i \in 1..Len(sort_by) |-> x[SortTranslate(sort_by[i]) + 1]]

\* key(x) < key(y) on the key lists: decided at the first entry that differs
KeyLess(x, y, sort_by) ==
    \E i \in 1..Len(sort_by) :
        /\ SubSeq(SortOrder(x, sort_by), 1, i - 1) = SubSeq(SortOrder(y, sort_by), 1, i - 1)
        /\ ItemLess(SortTranslate(sort_by[i]), SortOrder(x, sort_by)[i], SortOrder(y, sort_by)[i])

Reverse(s) == [i \in 1..Len(s) |-> s[Len(s) + 1 - i]]

\* x put into an ordered list behind every entry that is not greater
RECURSIVE InsertStable(_, _, _)
InsertStable(x, s, sort_by) ==
    IF s = <<>> THEN <<x>>
    ELSE IF KeyLess(x, s[1], sort_by) THEN <<x>> \o s
    ELSE <<s[1]>> \o InsertStable(x, Tail(s), sort_by)

\* the stable ascending sort of a list
RECURSIVE StableSort(_, _)
StableSort(s, sort_by) ==
    IF s = <<>> THEN <<>>
    ELSE InsertStable(s[Len(s)], StableSort(SubSeq(s, 1, Len(s) - 1), sort_by), sort_by)

\* sorted(results, key=sort_order, reverse=descending): list.sort reverses
\* the list, sorts it stably and reverses it again when reverse is set,
\* which keeps entries with equal keys in their original order
Sorted(s, sort_by, descending) ==
    IF descending THEN Reverse(StableSort(Reverse(s), sort_by))
    ELSE StableSort(s, sort_by)

\* a sort that orders by the first column only
SortResultsFirstColumn(rs, sort_by, descending) ==
    Sorted(rs, <<sort_by[1]>>, descending)

\* a descending sort that reverses the ascending result
SortResultsReversedAfter(rs, sort_by, descending) ==
    IF descending THEN Reverse(StableSort(rs, sort_by))
    ELSE StableSort(rs, sort_by)

SortResults(rs, sort_by, descending) == Sorted(rs, sort_by, descending)

(***************************************************************************)
(* Scopy._replace_symbols and format_results' _trimmed                     *)
(***************************************************************************)

MAX_WIDTH == 50

ELLIPSIS == <<".", ".", ".">>

\* re.sub(r'[.$%_-]', ' ', filename)
SubSymbols(s) ==
    [i \in 1..Len(s) |-> IF s[i] \in {".", "$", "%", "_", "-"} THEN " " ELSE s[i]]

\* ' '.join(s.split()): runs of whitespace become one space, none at the ends
RECURSIVE JoinSplit(_)
JoinSplit(s) ==
    IF s = <<>> THEN <<>>
    ELSE IF s[1] = " " THEN JoinSplit(Tail(s))
    ELSE IF Len(s) >= 2 /\ s[2] = " " /\ \E i \in 3..Len(s) : s[i] # " "
         THEN <<s[1], " ">> \o JoinSplit(Tail(Tail(s)))
    ELSE <<s[1]>> \o JoinSplit(Tail(s))

\* s.title(): a letter is upper-cased after a character that is not a letter
\* (or at the start) and lower-cased after a letter
Title(s) ==
    [i \in 1..Len(s) |->
        IF i = 1 \/ ~IsAlpha(s[i - 1]) THEN Upper(s[i]) ELSE Lower(s[i])]

ReplaceSymbols(filename) == Title(JoinSplit(SubSymbols(filename)))

\* relative_path = path[HOME_LENGTH:].replace('\\', '/')
RelativePath(path, home_length) == Replace(PySliceFrom(path, home_length), "\\", "/")

\* a trim that keeps MAX_WIDTH characters in front of the marker
TrimNameNoRoom(filename, raw) ==
    LET shown == IF ~raw THEN ReplaceSymbols(filename) ELSE filename
    IN  IF Len(shown) > MAX_WIDTH THEN PySliceTo(shown, MAX_WIDTH) \o ELLIPSIS ELSE shown

\* the filename _trimmed returns
TrimName(filename, raw) ==
    LET shown == IF ~raw THEN ReplaceSymbols(filename) ELSE filename
    IN  IF Len(shown) > MAX_WIDTH THEN PySliceTo(shown, MAX_WIDTH - 3) \o ELLIPSIS ELSE shown

\* one pass of the while loop: relative_path[relative_path.find('/', 1):]
DropLeftmost(relative_path) == PySliceFrom(relative_path, Find(relative_path, "/", 1))

\* the while loop
RECURSIVE DropUntilFits(_)
DropUntilFits(relative_path) ==
    IF Len(relative_path) > MAX_WIDTH - 3 THEN DropUntilFits(DropLeftmost(relative_path))
    ELSE relative_path

\* the relative path _trimmed returns
TrimPath(relative_path) ==
    IF Len(relative_path) > MAX_WIDTH THEN ELLIPSIS \o DropUntilFits(relative_path)
    ELSE relative_path

Trimmed(filename, path, raw, home_length) ==
    <<TrimName(filename, raw), TrimPath(RelativePath(path, home_length))>>

(***************************************************************************)
(* The filesystem, as os.path and os.listdir show it                       *)
(*                                                                         *)
(* fs.listing maps the path of each directory to the subdirectories and    *)
(* the regular files in it; fs.written holds the files written.            *)
(***************************************************************************)

\* os.path.join(path, name) on a POSIX system
Join(path, name) ==
    IF path # <<>> /\ path[Len(path)] = "/" THEN path \o name ELSE path \o <<"/">> \o name

\* a directory path names the same directory with a trailing separator
Canonical(path) ==
    IF Len(path) > 1 /\ path[Len(path)] = "/" THEN SubSeq(path, 1, Len(path) - 1) ELSE path

\* os.path.isdir(path)
IsDir(path) == Canonical(path) \in DOMAIN fs.listing

\* os.listdir(directory), each name with what os.path.isfile and
\* os.path.getsize answer for it
ListDir(directory) ==
    LET l == fs.listing[Canonical(directory)]
    IN  [i \in 1..Len(l.dirs) |-> [name |-> l.dirs[i], isfile |-> FALSE, size |-> 0]]
        \o [i \in 1..Len(l.files) |->
               [name |-> l.files[i].name, isfile |-> TRUE, size |-> l.files[i].size]]

\* the dirs list os.walk yields for a directory
WalkDirs(path) == fs.listing[Canonical(path)].dirs

(***************************************************************************)
(* Scopy._satisfies_filters, _search_directory, _search_all                *)
(***************************************************************************)

\* a filter that leaves the size out
SatisfiesFiltersNoSize(filename, ext, filesize) ==
    LET is_valid_file ==
            IF Truthy(self.filters)
            THEN \E i \in 1..Len(self.filters.val) :
                    Contains(LowerStr(self.filters.val[i]), LowerStr(filename))
            ELSE TRUE
        is_valid_ext == ext \in self.ext
    IN  is_valid_file /\ is_valid_ext

SatisfiesFilters(filename, ext, filesize) ==
    LET is_valid_file ==
            IF Truthy(self.filters)
            THEN \E i \in 1..Len(self.filters.val) :
                    Contains(LowerStr(self.filters.val[i]), LowerStr(filename))
            ELSE TRUE
        is_valid_ext == ext \in self.ext
        is_valid_size == filesize >= self.minsize
    IN  is_valid_file /\ is_valid_ext /\ is_valid_size

\* the loop of _search_directory over the names os.listdir returned
RECURSIVE SearchEntries(_, _)
SearchEntries(entries, directory) ==
    IF entries = <<>> THEN <<>>
    ELSE LET file == entries[1]
             parts == Split(file.name)
         IN  (IF file.isfile /\ SatisfiesFilters(parts[1], parts[2], file.size)
              THEN <<<<parts[1], parts[2], file.size, directory>>>>
              ELSE <<>>)
             \o SearchEntries(Tail(entries), directory)

SearchDirectory(directory) == SearchEntries(ListDir(directory), directory)

\* any(word.lower() in d.lower() for word in self.ignore)
IsIgnored(d, ignore) ==
    \E i \in 1..Len(ignore) : Contains(LowerStr(ignore[i]), LowerStr(d))

\* dirs.remove(d): the first entry equal to d is taken out
RECURSIVE Remove(_, _)
Remove(dirs, d) ==
    IF dirs = <<>> THEN <<>>
    ELSE IF dirs[1] = d THEN Tail(dirs)
    ELSE <<dirs[1]>> \o Remove(Tail(dirs), d)

\* `for d in dirs` from its i-th step on (i counts from 0): the iterator
\* reads dirs[i] from the list as it is at that moment, and the body may
\* have removed an entry from it
RECURSIVE IgnoreFrom(_, _, _)
IgnoreFrom(dirs, i, ignore) ==
    IF i >= Len(dirs) THEN dirs
    ELSE IF IsIgnored(dirs[i + 1], ignore)
         THEN IgnoreFrom(Remove(dirs, dirs[i + 1]), i + 1, ignore)
    ELSE IgnoreFrom(dirs, i + 1, ignore)

IgnoreDirectories(dirs) == IgnoreFrom(dirs, 0, self.ignore.val)

(***************************************************************************)
(* Scopy._get_header, format_results                                       *)
(*                                                                         *)
(* A line of the report is the tuple of the fields its template is filled  *)
(* with, in the template's order; the padding of a field to its column     *)
(* width is left to the template.                                          *)
(***************************************************************************)

\* os.path.abspath(directory) with the root of the filesystem as the
\* working directory
Abspath(directory) == <<"/">> \o Canonical(directory)

GetHeader(rs) ==
    <<<<"", <<>>>>, <<"Scanned directory:", Replace(Abspath(self.directory), "\\", "/")>>>>
    \o (IF Truthy(self.ignore)
        THEN <<<<"Ignoring subdirectories containing:", self.ignore.val>>>> ELSE <<>>)
    \o (IF Truthy(self.filters)
        THEN <<<<"Looking for files containing:", self.filters.val>>>> ELSE <<>>)
    \o <<<<"With extensions:", self.ext>>, <<"Found:", Len(rs)>>>>

\* COLUMNS = '{0:<{WIDTH}} {2:<8} {3:<8} {1}' filled with one result; the size
\* field is what _convert_bytes returned, a string or None
ResultLine(r) ==
    LET t == Trimmed(r[1], r[4], self.raw, Len(self.directory))
    IN  <<t[1], r[2], ConvertBytes(ToDigits(r[3])), t[2]>>

FormatResults(rs) ==
    [header |-> IF self.verbose THEN Some(GetHeader(rs)) ELSE None,
     column_names |-> <<"Filename:", "Ext:", "Size:", "Relative path:">>,
     results_string |-> [i \in 1..Len(rs) |-> ResultLine(rs[i])]]

(***************************************************************************)
(* Scopy.__init__ and run                                                  *)
(***************************************************************************)

\* __init__: the attributes derived from the parsed arguments
NewScopy(args) ==
    [directory |-> Replace(args.directory, "\\", "/"),
     ext |-> SetExtensions(args.ext),
     no_subs |-> args.no_subs,
     filters |-> args.filters,
     ignore |-> args.ignore,
     minsize |-> SetMinsize(args.minsize).size,
     raw |-> args.raw,
     sort_by |-> args.sort_by,
     descending |-> args.descending,
     verbose |-> args.verbose,
     outfile |-> SetOutfile(args.outfile)]

\* what print() writes: the kind of message and its text
Printed(kind, text) == [kind |-> kind, text |-> text]

\* a test that lets every return value of get_results through
HasResultsAlways(rs) == TRUE

\* run's test `if results:`
HasResults(rs) == Truthy(rs)

\* get_results on a path that is no directory: the message, and None
GetResultsInvalid ==
    /\ pc = "run"
    /\ ~IsDir(self.directory)
    /\ console' = Append(console, Printed("invalid", <<self.directory, " is not a valid directory!">>))
    /\ results' = None
    /\ stages' = Append(stages, "get_results")
    /\ pc' = "run_test"
    /\ UNCHANGED <<self, fs, pending, sorted_results, formatted_content, arg, out>>

\* get_results with no_subs: _search_directory on the directory itself
GetResultsCurrent ==
    /\ pc = "run"
    /\ IsDir(self.directory)
    /\ self.no_subs
    /\ results' = Some(SearchDirectory(self.directory))
    /\ stages' = Append(stages, "get_results")
    /\ pc' = "run_test"
    /\ UNCHANGED <<self, fs, pending, sorted_results, formatted_content, console, arg, out>>

\* get_results without no_subs: _search_all starts os.walk at the directory
SearchAllEnter ==
    /\ pc = "run"
    /\ IsDir(self.directory)
    /\ ~self.no_subs
    /\ results' = Some(<<>>)
    /\ pending' = <<self.directory>>
    /\ stages' = Append(stages, "get_results")
    /\ pc' = "walk"
    /\ UNCHANGED <<self, fs, sorted_results, formatted_content, console, arg, out>>

\* one pass of _search_all's loop: os.walk yields the next directory, the
\* body prunes dirs in place and searches the directory, and os.walk then
\* descends into what is left of dirs, in order, before anything else
SearchAllStep ==
    /\ pc = "walk"
    /\ pending # <<>>
    /\ LET path == Head(pending)
           dirs == IF Truthy(self.ignore) THEN IgnoreDirectories(WalkDirs(path))
                   ELSE WalkDirs(path)
       IN  /\ results' = Some(results.val \o SearchDirectory(path))
           /\ pending' = [i \in 1..Len(dirs) |-> Join(path, dirs[i])] \o Tail(pending)
    /\ UNCHANGED <<self, fs, pc, sorted_results, formatted_content, console, stages, arg, out>>

\* os.walk is exhausted: _search_all returns its list
SearchAllReturn ==
    /\ pc = "walk"
    /\ pending = <<>>
    /\ pc' = "run_test"
    /\ UNCHANGED <<self, fs, pending, results, sorted_results, formatted_content,
                   console, stages, arg, out>>

\* run with nothing found, or with None: it returns
RunReturn ==
    /\ pc = "run_test"
    /\ ~HasResults(results)
    /\ pc' = "done"
    /\ UNCHANGED <<self, fs, pending, results, sorted_results, formatted_content,
                   console, stages, arg, out>>

RunSortResults ==
    /\ pc = "run_test"
    /\ HasResults(results)
    /\ sorted_results' = SortResults(results.val, self.sort_by, self.descending)
    /\ stages' = Append(stages, "sort_results")
    /\ pc' = "sorted"
    /\ UNCHANGED <<self, fs, pending, results, formatted_content, console, arg, out>>

RunFormatResults ==
    /\ pc = "sorted"
    /\ formatted_content' = Some(FormatResults(sorted_results))
    /\ stages' = Append(stages, "format_results")
    /\ pc' = "formatted"
    /\ UNCHANGED <<self, fs, pending, results, sorted_results, console, arg, out>>

FOOTER == "\n\n\nCreated with Scopy. https://github.com/narimiran/scopy \n"

\* output_results with an outfile: _write_to_file
OutputToFile ==
    /\ pc = "formatted"
    /\ Truthy(self.outfile)
    /\ fs' = [fs EXCEPT !.written =
                 Append(@, [name |-> self.outfile.val,
                            lines |-> <<formatted_content.val, FOOTER>>])]
    /\ console' = Append(console, Printed("saved", <<"Results saved in ", self.outfile.val>>))
    /\ stages' = Append(stages, "output_results")
    /\ pc' = "done"
    /\ UNCHANGED <<self, pending, results, sorted_results, formatted_content, arg, out>>

\* output_results without one: print
OutputToConsole ==
    /\ pc = "formatted"
    /\ ~Truthy(self.outfile)
    /\ console' = Append(console, Printed("report", formatted_content.val))
    /\ stages' = Append(stages, "output_results")
    /\ pc' = "done"
    /\ UNCHANGED <<self, fs, pending, results, sorted_results, formatted_content, arg, out>>

(***************************************************************************)
(* Specifications of the helpers: Init draws the argument, one action      *)
(* applies the helper.  The pipeline's variables stay idle.                *)
(***************************************************************************)

Idle == [idle |-> TRUE]

RunIdle ==
    /\ self = Idle /\ fs = Idle /\ pending = <<>> /\ results = None
    /\ sorted_results = <<>> /\ formatted_content = None
    /\ console = <<>> /\ stages = <<>>

RunVars == <<self, fs, pending, results, sorted_results, formatted_content,
             console, stages>>

\* ---- _split ----

MaxNameLen == 4

FileNames == StringsOver({"a", "b", "."}, 1, MaxNameLen)

InitSplit == RunIdle /\ pc = "split_call" /\ arg \in FileNames /\ out = None

ApplySplit ==
    /\ pc = "split_call"
    /\ out' = Split(arg)
    /\ pc' = "split_done"
    /\ UNCHANGED <<RunVars, arg>>

NextSplit == ApplySplit

SpecSplit == InitSplit /\ [][NextSplit]_vars

HasDot(s) == \E i \in 1..Len(s) : s[i] = "."

\* C8 as stated: _split divides a filename at its last dot, and for a
\* filename with no dot at all the extension returned is the entire filename.
C8_DotlessExtIsWholeName ==
    (pc = "split_done" /\ ~HasDot(arg)) => out[2] = arg

\* C8 amended: _split returns (base, extension) with base followed by
\* extension giving back the filename; when the filename has a dot the
\* extension starts at its last dot (a dot followed by no further dot); when
\* it has none, the base is the filename without its last character and the
\* extension is that last character alone.
C8_SplitAtLastDot ==
    pc = "split_done" =>
        /\ out[1] \o out[2] = arg
        /\ HasDot(arg) =>
              /\ StartsWith(out[2], ".")
              /\ ~HasDot(Tail(out[2]))
        /\ ~HasDot(arg) =>
              /\ out[1] = SubSeq(arg, 1, Len(arg) - 1)
              /\ out[2] = <<arg[Len(arg)]>>

\* a dot-less filename of several characters has been split, and the
\* extension is not the filename
C8_Witness ==
    /\ pc = "split_done"
    /\ ~HasDot(arg)
    /\ Len(arg) >= 2
    /\ out[2] # arg

\* ---- _set_minsize ----

MaxMinsizeLen == 3

\* the command line's examples, the largest multiplier, and every short
\* string of digits, signs, unit letters and other characters
MinsizeArgs ==
    StringsOver({"0", "1", "5", "-", "+", "k", "M", "x", "."}, 1, MaxMinsizeLen)
    \cup {<<"6", "4", "k">>, <<"2", "m">>, <<"1", "0", "0">>, <<"a", "b", "c">>,
          <<"1", "g">>, <<"-", "1", "G">>}

InitMinsize == RunIdle /\ pc = "minsize_call" /\ arg \in MinsizeArgs /\ out = None

ApplySetMinsize ==
    /\ pc = "minsize_call"
    /\ out' = SetMinsize(arg)
    /\ pc' = "minsize_done"
    /\ UNCHANGED <<RunVars, arg>>

NextMinsize == ApplySetMinsize

SpecMinsize == InitMinsize /\ [][NextMinsize]_vars

\* C7: for every minimum-size string, _set_minsize returns an integer >= 0,
\* and it is 0 with the warning printed when the numeric part does not parse.
C7_MinsizeNonNegative ==
    pc = "minsize_done" =>
        /\ out.size >= 0
        /\ out.printed # <<>> => out.size = 0

\* ---- _convert_bytes ----

MaxSizeDigits == 6

SizeDigits == {0, 1, 512, 1023}

ByteCounts == StringsOver(SizeDigits, 1, MaxSizeDigits)

InitBytes == RunIdle /\ pc = "bytes_call" /\ arg \in ByteCounts /\ out = None

ApplyConvertBytes ==
    /\ pc = "bytes_call"
    /\ out' = ConvertBytes(arg)
    /\ pc' = "bytes_done"
    /\ UNCHANGED <<RunVars, arg>>

NextBytes == ApplyConvertBytes

SpecBytes == InitBytes /\ [][NextBytes]_vars

\* the number of divisions by 1024 after which a byte count is first < 1024
FirstUnit(n) ==
    IF \A i \in 1..Len(n) : n[i] = 0 THEN 0
    ELSE (CHOOSE i \in 1..Len(n) : n[i] # 0 /\ \A j \in 1..Len(n) : j > i => n[j] = 0) - 1

\* C9: every non-negative byte count is rendered, with the first of the
\* units B, KB, MB, GB, TB at which the count divided by 1024 per step is
\* below 1024; 0 gives "0 B", 1024 gives "1 KB" and 1048576 gives "1 MB".
C9_EveryCountRendered ==
    pc = "bytes_done" =>
        /\ ~out.none
        /\ FirstUnit(arg) < Len(UNITS)
        /\ PySliceFrom(out.val, -2) = PadLeft(UNITS[FirstUnit(arg) + 1], 2)
        /\ arg = <<0>> => out.val = <<" ", " ", "0", " ", " ", "B">>
        /\ arg = <<0, 1>> => out.val = <<" ", " ", "1", " ", "K", "B">>
        /\ arg = <<0, 0, 1>> => out.val = <<" ", " ", "1", " ", "M", "B">>

\* ---- sort_results ----

MaxResults == 3

MaxSortKeys == 2

SortableResults ==
    { <<<<"a">>, <<".", "p">>, 10, <<"r">>>>,
      <<<<"a">>, <<".", "e">>, 2, <<"r", "/", "d">>>>,
      <<<<"B">>, <<".", "p">>, 2, <<"r">>>>,
      <<<<"a", "b">>, <<".", "p">>, 2, <<"r", "/", "d">>>>,
      <<<<"a">>, <<".", "p">>, 10, <<"r", "/", "d">>>> }

InitSort ==
    /\ RunIdle
    /\ pc = "sort_call"
    /\ arg \in [results : StringsOver(SortableResults, 0, MaxResults),
                sort_by : StringsOver({"n", "e", "s", "d"}, 1, MaxSortKeys),
                descending : BOOLEAN]
    /\ out = <<>>

\* sort_results on the argument
ApplySortResults ==
    /\ pc = "sort_call"
    /\ out' = <<SortResults(arg.results, arg.sort_by, arg.descending)>>
    /\ pc' = "sort_done"
    /\ UNCHANGED <<RunVars, arg>>

\* sort_results on its own output
ApplySortResultsAgain ==
    /\ pc = "sort_done"
    /\ out' = Append(out, SortResults(out[1], arg.sort_by, arg.descending))
    /\ pc' = "resort_done"
    /\ UNCHANGED <<RunVars, arg>>

NextSort == ApplySortResults \/ ApplySortResultsAgain

SpecSort == InitSort /\ [][NextSort]_vars

\* the value of a record under one sort key, and its order
KeyField(x, key) ==
    CASE key = "n" -> x[1] [] key = "e" -> x[2] [] key = "s" -> x[3] [] key = "d" -> x[4]

FieldBefore(x, y, key) ==
    IF key = "s" THEN x[3] < y[3] ELSE StrLess(KeyField(x, key), KeyField(y, key))

\* x is not after y in the lexicographic order of the key sequence: the first
\* key decides, a later key only among records equal on all earlier keys
RECURSIVE LexNotAfter(_, _, _)
LexNotAfter(x, y, keys) ==
    IF keys = <<>> THEN TRUE
    ELSE \/ FieldBefore(x, y, keys[1])
         \/ /\ KeyField(x, keys[1]) = KeyField(y, keys[1])
            /\ LexNotAfter(x, y, Tail(keys))

EqualOnKeys(x, y, keys) == \A i \in 1..Len(keys) : KeyField(x, keys[i]) = KeyField(y, keys[i])

Count(s, x) == Cardinality({i \in 1..Len(s) : s[i] = x})

IsPermutation(s, t) ==
    /\ Len(s) = Len(t)
    /\ \A i \in 1..Len(s) : Count(s, s[i]) = Count(t, s[i])

\* the entries of s equal to x on the keys, in their order in s
RECURSIVE TiedWith(_, _, _)
TiedWith(s, x, keys) ==
    IF s = <<>> THEN <<>>
    ELSE (IF EqualOnKeys(s[1], x, keys) THEN <<s[1]>> ELSE <<>>) \o TiedWith(Tail(s), x, keys)

\* C4: sort_results returns a permutation of its input, ordered
\* lexicographically by the key sequence; with the descending flag the whole
\* composite order is reversed (each adjacent pair is non-increasing).
C4_SortedByKeySequence ==
    pc \in {"sort_done", "resort_done"} =>
        /\ IsPermutation(out[1], arg.results)
        /\ \A i \in 1..(Len(out[1]) - 1) :
              IF arg.descending
              THEN LexNotAfter(out[1][i + 1], out[1][i], arg.sort_by)
              ELSE LexNotAfter(out[1][i], out[1][i + 1], arg.sort_by)

\* a descending sort by two keys has reordered its input, and two records
\* equal on the first key were ordered by the second
C4_Witness ==
    /\ pc = "sort_done"
    /\ arg.descending
    /\ Len(arg.sort_by) = 2
    /\ out[1] # arg.results
    /\ \E i \in 1..(Len(out[1]) - 1) :
          /\ KeyField(out[1][i], arg.sort_by[1]) = KeyField(out[1][i + 1], arg.sort_by[1])
          /\ FieldBefore(out[1][i + 1], out[1][i], arg.sort_by[2])

\* C5: sorting the output again with the same keys and flag returns the same
\* sequence, and records equal on all the keys keep their input order,
\* ascending or descending.
C5_IdempotentAndStable ==
    /\ pc = "resort_done" => out[2] = out[1]
    /\ pc \in {"sort_done", "resort_done"} =>
          \A i \in 1..Len(arg.results) :
              TiedWith(out[1], arg.results[i], arg.sort_by)
                  = TiedWith(arg.results, arg.results[i], arg.sort_by)

\* a descending sort has been applied twice to a list in which two different
\* records are equal on the keys, and the first sort changed the list
C5_Witness ==
    /\ pc = "resort_done"
    /\ arg.descending
    /\ out[1] # arg.results
    /\ \E i, j \in 1..Len(arg.results) :
          /\ i < j
          /\ arg.results[i] # arg.results[j]
          /\ EqualOnKeys(arg.results[i], arg.results[j], arg.sort_by)

\* ---- _trimmed ----

MaxSegments == 3

\* n characters of a unit repeated
Repeated(unit, n) == [i \in 1..n |-> unit[((i - 1) % Len(unit)) + 1]]

NameLengths == {0, 1, 4, 47, 50, 51, 60}

TrimNames ==
    {Repeated(u, n) : u \in {<<"a">>, <<"a", "_", "_">>, <<"b", "1", "x", ".", "-">>},
                      n \in NameLengths}

SegmentLengths == {1, 3, 23, 46, 47, 50}

Segments == {Repeated(<<"d">>, n) : n \in SegmentLengths} \cup {<<"d", "\\", "d">>}

RECURSIVE JoinAll(_, _)
JoinAll(path, names) ==
    IF names = <<>> THEN path ELSE JoinAll(Join(path, names[1]), Tail(names))

\* the scanned directory, as given with or without a trailing separator
TrimHomes == {<<"r">>, <<"r", "/">>}

InitTrim ==
    /\ RunIdle
    /\ pc = "trim_call"
    /\ \E home \in TrimHomes, segs \in StringsOver(Segments, 0, MaxSegments),
          name \in TrimNames, raw \in BOOLEAN :
          arg = [filename |-> name, path |-> JoinAll(home, segs), raw |-> raw,
                 home_length |-> Len(home)]
    /\ out = None

\* _trimmed up to its test of the relative path's length
TrimEnter ==
    /\ pc = "trim_call"
    /\ LET relative_path == RelativePath(arg.path, arg.home_length)
       IN  /\ out' = [filename |-> TrimName(arg.filename, arg.raw),
                      relative_path |-> relative_path]
           /\ pc' = IF Len(relative_path) > MAX_WIDTH THEN "trim_loop" ELSE "trim_done"
    /\ UNCHANGED <<RunVars, arg>>

\* one pass of the while loop
TrimLoop ==
    /\ pc = "trim_loop"
    /\ Len(out.relative_path) > MAX_WIDTH - 3
    /\ out' = [out EXCEPT !.relative_path = DropLeftmost(@)]
    /\ UNCHANGED <<RunVars, arg, pc>>

\* the loop's exit: the marker is put in front
TrimExit ==
    /\ pc = "trim_loop"
    /\ ~(Len(out.relative_path) > MAX_WIDTH - 3)
    /\ out' = [out EXCEPT !.relative_path = ELLIPSIS \o @]
    /\ pc' = "trim_done"
    /\ UNCHANGED <<RunVars, arg>>

NextTrim == TrimEnter \/ TrimLoop \/ TrimExit

SpecTrim == InitTrim /\ [][NextTrim]_vars

\* C6: the display name and the relative path _trimmed returns have at most
\* 50 characters each, markers included, in raw and non-raw mode.
C6_FieldsWithinMaxWidth ==
    pc = "trim_done" =>
        /\ Len(out.filename) <= 50
        /\ Len(out.relative_path) <= 50

\* a name and a path that were both longer than 50 characters came back
\* shortened and marked
C6_Witness ==
    /\ pc = "trim_done"
    /\ Len(arg.filename) > 50
    /\ ~arg.raw
    /\ Len(RelativePath(arg.path, arg.home_length)) > 50
    /\ PySliceFrom(out.filename, -3) = ELLIPSIS
    /\ PySliceTo(out.relative_path, 3) = ELLIPSIS

IsSuffix(t, s) == Len(t) <= Len(s) /\ SubSeq(s, Len(s) - Len(t) + 1, Len(s)) = t

\* C10: for every relative path longer than 50 characters the loop ends,
\* and the path returned is '...' followed by a suffix of the relative path
\* that begins at a path separator (whole leftmost segments were dropped),
\* also when the path has no separator after position 0.
C10_WholeSegmentsDropped ==
    (pc = "trim_done" /\ Len(RelativePath(arg.path, arg.home_length)) > MAX_WIDTH) =>
        /\ PySliceTo(out.relative_path, 3) = ELLIPSIS
        /\ IsSuffix(PySliceFrom(out.relative_path, 3), RelativePath(arg.path, arg.home_length))
        /\ StartsWith(PySliceFrom(out.relative_path, 3), "/")

\* the part of C10 about the loop itself: every pass strictly shortens the
\* path, so the loop is left after at most as many passes as the path has
\* characters
C10_EveryPassShortens ==
    [][(pc = "trim_loop" /\ pc' = "trim_loop") =>
          Len(out'.relative_path) < Len(out.relative_path)]_vars

(***************************************************************************)
(* The run of a Scopy object: Init is a filesystem and the object after    *)
(* __init__, for arguments drawn from small sets.                          *)
(***************************************************************************)

MaxDirs == 2

MaxFiles == 2

\* the sequences of at most n different members of a set
DistinctSeqs(S, n) ==
    {q \in StringsOver(S, 0, n) : \A i, j \in 1..Len(q) : i # j => q[i] # q[j]}

DirNames == {<<"d", "r">>, <<"a", "D", "r">>, <<"o", "k">>}

Files ==
    {[name |-> <<"a", ".", "p">>, size |-> 2048],
     [name |-> <<"b", ".", "p">>, size |-> 500],
     [name |-> <<"A", "b", ".", "t">>, size |-> 2048]}

\* a filesystem with the directory r: r holds root_dirs, each of these holds
\* sub_dirs, and every directory holds the same files
Tree(root_dirs, sub_dirs, files) ==
    LET root == <<"r">>
        level1 == {Join(root, root_dirs[i]) : i \in 1..Len(root_dirs)}
        level2 == {Join(q, sub_dirs[i]) : q \in level1, i \in 1..Len(sub_dirs)}
    IN  [q \in {root} \cup level1 \cup level2 |->
            [dirs |-> IF q = root THEN root_dirs ELSE IF q \in level1 THEN sub_dirs ELSE <<>>,
             files |-> files]]

Filesystems ==
    {[listing |-> Tree(root_dirs, sub_dirs, files), written |-> <<>>] :
        root_dirs \in DistinctSeqs(DirNames, MaxDirs),
        sub_dirs \in {<<>>, <<<<"d", "r">>>>},
        files \in DistinctSeqs(Files, MaxFiles)}

\* how the results are presented: -r, -s, -z, -v
Presentations ==
    {[raw |-> FALSE, sort_by |-> <<"n">>, descending |-> FALSE, verbose |-> FALSE],
     [raw |-> TRUE, sort_by |-> <<"s", "d">>, descending |-> TRUE, verbose |-> TRUE]}

Arguments ==
    {[directory |-> directory, ext |-> ext, no_subs |-> no_subs, filters |-> filters,
      ignore |-> ignore, minsize |-> minsize, raw |-> pr.raw, sort_by |-> pr.sort_by,
      descending |-> pr.descending, verbose |-> pr.verbose, outfile |-> outfile] :
        directory \in {<<"r">>, <<"r", "\\">>, <<"n">>},
        ext \in {{<<"p">>}, {<<".", "p">>, <<"t">>}},
        no_subs \in BOOLEAN,
        filters \in {None, Some(<<<<"A">>>>)},
        ignore \in {None, Some(<<<<"D", "R">>>>)},
        minsize \in {<<"0">>, <<"1", "k">>},
        pr \in Presentations,
        outfile \in {None, Some(<<"o">>)}}

Init ==
    /\ fs \in Filesystems
    /\ \E args \in Arguments :
          /\ self = NewScopy(args)
          /\ console = [i \in 1..Len(SetMinsize(args.minsize).printed) |->
                           Printed("warning", SetMinsize(args.minsize).printed[i])]
    /\ pc = "run"
    /\ pending = <<>>
    /\ results = None
    /\ sorted_results = <<>>
    /\ formatted_content = None
    /\ stages = <<>>
    /\ arg = None
    /\ out = None

Next ==
    \/ GetResultsInvalid
    \/ GetResultsCurrent
    \/ SearchAllEnter
    \/ SearchAllStep
    \/ SearchAllReturn
    \/ RunReturn
    \/ RunSortResults
    \/ RunFormatResults
    \/ OutputToFile
    \/ OutputToConsole

Spec == Init /\ [][Next]_vars

\* the names of the directories between the scanned directory and a path
RECURSIVE SplitPath(_)
SplitPath(s) ==
    IF s = <<>> THEN <<>>
    ELSE IF s[1] = "/" THEN SplitPath(Tail(s))
    ELSE LET cut == Find(s, "/", 0)
         IN  IF cut = -1 THEN <<s>>
             ELSE <<PySliceTo(s, cut)>> \o SplitPath(PySliceFrom(s, cut))

Below(path) == SplitPath(PySliceFrom(path, Len(self.directory)))

\* C1: in a recursive scan with a non-empty ignore list, no record has as
\* its containing directory a subdirectory whose name contains an ignore
\* substring (in any case), or a descendant of one, wherever the
\* subdirectory stands in its listing.
C1_IgnoredSubtreesPruned ==
    (~self.no_subs /\ Truthy(self.ignore) /\ ~results.none) =>
        \A i \in 1..Len(results.val) :
            \A k \in 1..Len(Below(results.val[i][4])) :
                ~IsIgnored(Below(results.val[i][4])[k], self.ignore.val)

\* C2: every record get_results returns has an extension in the accepted
\* set, a size of at least the minimum size and, if name filters are given,
\* a base name that contains one of them in some case.
C2_RecordsSatisfyFilters ==
    ~results.none =>
        \A i \in 1..Len(results.val) :
            LET r == results.val[i]
            IN  /\ r[2] \in self.ext
                /\ r[3] >= self.minsize
                /\ Truthy(self.filters) =>
                      \E f \in 1..Len(self.filters.val) :
                          \E at \in 0..Len(r[1]) :
                              LowerStr(SubSeq(r[1], at + 1, at + Len(self.filters.val[f])))
                                  = LowerStr(self.filters.val[f])

\* a recursive scan with name filters and a minimum size has returned some
\* of the files it met and left others out
C2_Witness ==
    /\ pc = "run_test"
    /\ ~self.no_subs
    /\ Truthy(self.filters)
    /\ self.minsize > 0
    /\ ~Truthy(self.ignore)
    /\ Len(results.val) > 0
    /\ Len(results.val) < Cardinality(DOMAIN fs.listing) * Len(fs.listing[<<"r">>].files)

\* C3: when the root path is not a directory, run prints the message and
\* does nothing more: sort_results, format_results and output_results are
\* not entered, no report is printed and no file is written, whether or not
\* an output file was asked for.
C3_InvalidRootStops ==
    ~IsDir(self.directory) =>
        /\ \A i \in 1..Len(stages) : stages[i] = "get_results"
        /\ fs.written = <<>>
        /\ sorted_results = <<>>
        /\ formatted_content = None
        /\ \A i \in 1..Len(console) : console[i].kind \in {"warning", "invalid"}
        /\ pc \in {"run", "run_test", "done"}
        /\ pc \in {"run_test", "done"} =>
              /\ results = None
              /\ stages = <<"get_results">>
              /\ console # <<>>
              /\ console[Len(console)] =
                    Printed("invalid", <<self.directory, " is not a valid directory!">>)

\* run has returned for a path that is no directory, with an output file
\* asked for
C3_Witness ==
    /\ pc = "done"
    /\ ~IsDir(self.directory)
    /\ Truthy(self.outfile)
    /\ Len(console) = 1

====
